---------------------------- MODULE Spec2Model ----------------------------
(***************************************************************************)
(* Interview Practice App (src/app.py): the Streamlit session record, the  *)
(* setup wizard, the Start Interview and Submit Answer handlers and the    *)
(* preference parser parse_setup_answer.                                   *)
(*                                                                         *)
(* Texts are sequences of one-character strings, so that str.strip,        *)
(* str.lower, str.replace and str.split are computed character by          *)
(* character as Python computes them.                                      *)
(***************************************************************************)
EXTENDS Integers, Sequences, FiniteSets, TLC

VARIABLES
    started,             \* st.session_state.started
    job,                 \* st.session_state.job
    question,            \* st.session_state.question
    history,             \* st.session_state.history
    interview_language,  \* st.session_state.interview_language
    language_level,      \* st.session_state.language_level
    explain_language,    \* st.session_state.explain_language
    setup_step,          \* st.session_state.setup_step
    setup_chat,          \* st.session_state.setup_chat
    company_website,     \* st.session_state.company_website (absent until set)
    event,               \* history variable: the last script run's input event
    calls,               \* history variable: parser/generator calls of the last run
    rounds,              \* history variable: completed question/answer/feedback rounds
    answered,            \* history variable: session.question was recorded in history
    answer_submitted,    \* history variable: a non-blank answer has been submitted
    setup_complete_shown, \* the last run rendered st.success("Setup complete")
    parse_in,            \* input line of the parser harness (ParseSpec)
    parse_out            \* result of the parser harness (ParseSpec)

session == <<started, job, question, history, interview_language,
             language_level, explain_language, setup_step, setup_chat,
             company_website>>

vars == <<started, job, question, history, interview_language,
          language_level, explain_language, setup_step, setup_chat,
          company_website, event, calls, rounds, answered, answer_submitted,
          setup_complete_shown, parse_in, parse_out>>

---------------------------------------------------------------------------
(* Bounds of the model *)

\* Submit Answer is explored until history holds this many rounds.
MaxHistory == 2

\* Parser inputs are concatenations of at most this many pieces.
MaxPieces == 5

---------------------------------------------------------------------------
(* Python string operations, character by character *)

\* Characters str.split() and str.strip() treat as whitespace.
Whitespace == {" ", "\t", "\n", "\r", "\f"}

UpperCase == <<"A", "B", "C", "D", "E", "F", "G", "H", "I", "J", "K", "L", "M",
               "N", "O", "P", "Q", "R", "S", "T", "U", "V", "W", "X", "Y", "Z">>

LowerCase == <<"a", "b", "c", "d", "e", "f", "g", "h", "i", "j", "k", "l", "m",
               "n", "o", "p", "q", "r", "s", "t", "u", "v", "w", "x", "y", "z">>

LowerChar(c) ==
    IF \E i \in 1..Len(UpperCase) : UpperCase[i] = c
    THEN LowerCase[CHOOSE i \in 1..Len(UpperCase) : UpperCase[i] = c]
    ELSE c

\* str.lower()
RECURSIVE Lower(_)
Lower(s) == IF s = <<>> THEN <<>> ELSE <<LowerChar(Head(s))>> \o Lower(Tail(s))

RECURSIVE LStrip(_)
LStrip(s) == IF s # <<>> /\ Head(s) \in Whitespace THEN LStrip(Tail(s)) ELSE s

RECURSIVE RStrip(_)
RStrip(s) ==
    IF s # <<>> /\ s[Len(s)] \in Whitespace
    THEN RStrip(SubSeq(s, 1, Len(s) - 1))
    ELSE s

\* str.strip()
Strip(s) == RStrip(LStrip(s))

\* str.replace(old, new) for single characters
RECURSIVE Replace(_, _, _)
Replace(s, old, new) ==
    IF s = <<>> THEN <<>>
    ELSE <<IF Head(s) = old THEN new ELSE Head(s)>> \o Replace(Tail(s), old, new)

\* str.split(): scan left to right, cur is the word being read, acc the words read
RECURSIVE SplitFrom(_, _, _)
SplitFrom(s, cur, acc) ==
    IF s = <<>>
    THEN IF cur = <<>> THEN acc ELSE Append(acc, cur)
    ELSE IF Head(s) \in Whitespace
         THEN SplitFrom(Tail(s), <<>>, IF cur = <<>> THEN acc ELSE Append(acc, cur))
         ELSE SplitFrom(Tail(s), Append(cur, Head(s)), acc)

Split(s) == SplitFrom(s, <<>>, <<>>)

\* x in list
InList(x, list) == \E i \in 1..Len(list) : list[i] = x

---------------------------------------------------------------------------
(* parse_setup_answer *)

\* ["A1", "A2", "B1", "B2", "C1", "C2"]
LEVELS == << <<"A", "1">>, <<"A", "2">>, <<"B", "1">>,
             <<"B", "2">>, <<"C", "1">>, <<"C", "2">> >>

\* Variant: the code compared without lower().
LevelMatches_caseSensitive(lv, words_lower) == InList(lv, words_lower)

\* if lv.lower() in words_lower
LevelMatches(lv, words_lower) == InList(Lower(lv), words_lower)

\* for lv in [...]: if lv.lower() in words_lower: level = lv; break
RECURSIVE FindLevel(_, _)
FindLevel(codes, words_lower) ==
    IF codes = <<>> THEN <<>>
    ELSE IF LevelMatches(Head(codes), words_lower) THEN Head(codes)
    ELSE FindLevel(Tail(codes), words_lower)

\* words[0] if words else ""
FirstWord(words) == IF words # <<>> THEN words[1] ELSE <<>>

\* if "yes" in words_lower and len(words) >= 2: explain_language = words[-1]
ExplainWord(words, words_lower) ==
    IF InList(<<"y", "e", "s">>, words_lower) /\ Len(words) >= 2
    THEN words[Len(words)]
    ELSE <<>>

parse_setup_answer(text) ==
    LET words == Split(Replace(text, ",", " "))
        words_lower == [i \in 1..Len(words) |-> Lower(words[i])]
    IN  <<FirstWord(words), FindLevel(LEVELS, words_lower),
          ExplainWord(words, words_lower)>>

---------------------------------------------------------------------------
(* Inputs *)

\* Texts the chat input can deliver (st.chat_input returns None or a
\* non-empty string) in Spec, where the interview follows the wizard.
SetupTexts == { <<" ">>, <<" ", "b", "1", " ">> }

\* Texts the chat input can deliver in WizardSpec, the wizard on its own.
WizardTexts == { <<" ">>, <<" ", "b", "1", " ">>, <<"n", "o">>, <<" ", "N", "o">>,
                 <<"S", "k", "i", "p">>, <<"d", "e">> }

\* Contents of the job-description text area when Start Interview is clicked.
JobTexts == { <<" ">>, <<"J">>, <<"K">> }

\* Contents of the answer text area when the form is submitted.
AnswerTexts == { <<" ", "\n">>, <<",">>,
                 <<"D", "e", " ", "c", "2", " ", "y", "e", "s", " ", "B", "n">> }

\* Outcomes of client.chat.completions.create(...) followed by
\* resp.choices[0].message.content.strip(): the call raises (or content is
\* None), or it returns a message content.
QuestionContents == { <<" ">>, <<" ", "Q">> }
FeedbackContents == { <<" ">>, <<"F">> }

Raises == [raises |-> TRUE, content |-> <<>>]
Returns(c) == [raises |-> FALSE, content |-> c]

QuestionReplies == {Raises} \cup {Returns(c) : c \in QuestionContents}
FeedbackReplies == {Raises} \cup {Returns(c) : c \in FeedbackContents}

---------------------------------------------------------------------------
(* Session state defaults *)

Init ==
    /\ started = FALSE
    /\ job = <<>>
    /\ question = <<>>
    /\ history = <<>>
    /\ interview_language = <<>>
    /\ language_level = <<>>
    /\ explain_language = <<>>
    /\ setup_step = 0
    /\ setup_chat = <<>>
    /\ company_website = [present |-> FALSE, value |-> <<>>]
    /\ event = [kind |-> "none", text |-> <<>>]
    /\ calls = <<>>
    /\ rounds = 0
    /\ answered = FALSE
    /\ parse_in = <<>>
    /\ parse_out = <<>>
    /\ answer_submitted = FALSE
    /\ setup_complete_shown = FALSE

---------------------------------------------------------------------------
(* Setup wizard *)

\* setup_step value that means "setup done"
SetupDone == 4

\* current_q: the fixed prompt of a setup step, abbreviated to its label
SetupPrompt(step) ==
    IF step = 0 THEN <<"Q", "1", ")">>
    ELSE IF step = 1 THEN <<"Q", "2", ")">>
    ELSE IF step = 2 THEN <<"Q", "3", ")">>
    ELSE IF step = 3 THEN <<"Q", "4", ")">>
    ELSE <<>>

\* Variant: the prompt appended on every run, whatever the last entry is.
PromptNeeded_always(chat) == TRUE

\* (not setup_chat) or (setup_chat[-1]["role"] != "assistant")
PromptNeeded(chat) == chat = <<>> \/ chat[Len(chat)].role # "assistant"

\* Variant: the guard reads the entry before the last one (index off by one).
RenderPrompt_staleCheck(step, chat) ==
    IF step < SetupDone
       /\ (Len(chat) < 2 \/ chat[Len(chat) - 1].role # "assistant")
    THEN Append(chat, [role |-> "assistant", content |-> SetupPrompt(step)])
    ELSE chat

\* "If setup not done, show the next question once"
RenderPrompt(step, chat) ==
    IF step < SetupDone /\ PromptNeeded(chat)
    THEN Append(chat, [role |-> "assistant", content |-> SetupPrompt(step)])
    ELSE chat

\* Variant: the wizard guard off by one (setup_step <= 4).
ChatInputShown_offByOne == setup_step <= SetupDone

\* the chat input is rendered only inside "if setup_step < 4"
ChatInputShown == setup_step < SetupDone

\* Variant: "no" recognised only in lower case.
StoredExplain_caseSensitive(text) ==
    IF Strip(text) # <<"n", "o">> THEN Strip(text) ELSE <<>>

\* step 2: "no" (any casing, after strip) stores "", anything else the stripped text
StoredExplain(text) ==
    IF Lower(Strip(text)) # <<"n", "o">> THEN Strip(text) ELSE <<>>

\* step 3: "skip" (any casing, after strip) leaves company_website as it is
StoredWebsite(text, old) ==
    IF Lower(Strip(text)) # <<"s", "k", "i", "p">>
    THEN [present |-> TRUE, value |-> Strip(text)]
    ELSE old

\* st.session_state.setup_step += 1
NextStep(step) == step + 1

\* Whether a run that is not cut short by st.rerun() renders
\* st.success("Setup complete"): in the else branch of "if user_setup_input"
\* while setup_step < 4, and in the else branch of "if setup_step < 4".
SetupCompleteShown(step, has_input) ==
    IF step < SetupDone THEN ~has_input ELSE TRUE

\* A script run with no input event: only the setup prompt may be appended.
Rerun ==
    /\ setup_chat' = RenderPrompt(setup_step, setup_chat)
    /\ event' = [kind |-> "rerun", text |-> <<>>]
    /\ calls' = <<>>
    /\ setup_complete_shown' = SetupCompleteShown(setup_step, FALSE)
    /\ UNCHANGED <<started, job, question, history, interview_language,
                   language_level, explain_language, setup_step,
                   company_website, rounds, answered, answer_submitted,
                   parse_in, parse_out>>

\* Variant: the step branches as independent "if setup_step >= k" tests.
AtStep_orLater(k) == setup_step >= k

\* if st.session_state.setup_step == 0: ... elif ... == 1: ... (one branch)
AtStep(k) == setup_step = k

\* A script run in which the chat input delivered text, up to and including
\* the run that st.rerun() starts.
SetupSubmit(text) ==
    /\ ChatInputShown
    /\ text # <<>>
    /\ LET shown == RenderPrompt(setup_step, setup_chat)
           chat1 == Append(shown, [role |-> "user", content |-> text])
           step1 == NextStep(setup_step)
       IN  /\ interview_language' =
                 IF AtStep(0) THEN Strip(text) ELSE interview_language
           /\ language_level' =
                 IF AtStep(1) THEN Strip(text) ELSE language_level
           /\ explain_language' =
                 IF AtStep(2) THEN StoredExplain(text) ELSE explain_language
           /\ company_website' =
                 IF AtStep(3) THEN StoredWebsite(text, company_website)
                 ELSE company_website
           /\ setup_step' = step1
           /\ setup_chat' = RenderPrompt(step1, chat1)
           /\ setup_complete_shown' = SetupCompleteShown(step1, FALSE)
    /\ event' = [kind |-> "chat_input", text |-> text]
    /\ calls' = <<>>
    /\ UNCHANGED <<started, job, question, history, rounds, answered,
                   answer_submitted, parse_in, parse_out>>

---------------------------------------------------------------------------
(* Interview *)

\* A recorded call of the parser or of a generator function, with its
\* arguments and its outcome.
Call(fn, jd, q, a, asked, reply) ==
    [fn |-> fn, job_description |-> jd, question |-> q, answer |-> a,
     asked_questions |-> asked, reply |-> reply]

\* resp.choices[0].message.content.strip()
GenText(reply) == Strip(reply.content)

\* Variant: the job input unlocked one step early.
JobInputShown_early == setup_step >= SetupDone - 1

\* "Show job description input ONLY after setup is complete"
JobInputShown == setup_step >= SetupDone

\* Variant: the emptiness test without strip().
IsBlank_noStrip(text) == Len(text) = 0

\* len(text.strip()) == 0
IsBlank(text) == Len(Strip(text)) = 0

\* job stored by a Start Interview click with text area content jd
StoredJob(jd) == jd

\* The Start Interview button was clicked with jd in the text area.
StartInterview(jd, reply) ==
    /\ JobInputShown
    /\ event' = [kind |-> "start_interview", text |-> jd]
    /\ IF IsBlank(jd)
       THEN /\ calls' = <<>>
            /\ UNCHANGED <<started, job, question, answered>>
       ELSE /\ started' = TRUE
            /\ job' = StoredJob(jd)
            /\ calls' = <<Call("generate_first_question", jd, <<>>, <<>>, <<>>,
                               reply)>>
            /\ IF reply.raises
               THEN UNCHANGED <<question, answered>>
               ELSE /\ question' = GenText(reply)
                    /\ answered' = FALSE
    /\ setup_complete_shown' = SetupCompleteShown(setup_step, FALSE)
    /\ UNCHANGED <<history, interview_language, language_level,
                   explain_language, setup_step, setup_chat, company_website,
                   rounds, answer_submitted, parse_in, parse_out>>

\* the interview area, with the answer form, is rendered only if started
AnswerFormShown == started

\* Variant: the fallback applied on every submitted answer.
FallbackApplies_always == TRUE

\* if not st.session_state.interview_language
FallbackApplies == interview_language = <<>>

\* if il: ... = il (likewise lv, el)
Fallback(parsed, old) == IF parsed # <<>> THEN parsed ELSE old

\* Variant: the asked questions without the round just recorded.
AskedQuestions_withoutLast(h) == [i \in 1..(Len(h) - 1) |-> h[i].q]

\* [item["q"] for item in st.session_state.history]
AskedQuestions(h) == [i \in 1..Len(h) |-> h[i].q]

\* history.append({"q": ..., "a": ..., "feedback": ...})
Recorded(h, q, a, feedback) == Append(h, [q |-> q, a |-> a, feedback |-> feedback])

\* The answer form was submitted with ans in its text area.
SubmitAnswer(ans, fb, nq) ==
    /\ AnswerFormShown
    /\ event' = [kind |-> "submit_answer", text |-> ans]
    /\ IF IsBlank(ans)
       THEN /\ calls' = <<>>
            /\ UNCHANGED <<interview_language, language_level, explain_language,
                           history, question, rounds, answered,
                           answer_submitted>>
       ELSE LET parse == FallbackApplies
                p == parse_setup_answer(ans)
                parseCall == IF parse
                             THEN <<Call("parse_setup_answer", <<>>, <<>>, ans,
                                         <<>>, Returns(<<>>))>>
                             ELSE <<>>
                fbCall == <<Call("generate_feedback", job, question, ans, <<>>,
                                 fb)>>
                history1 == Recorded(history, question, ans, GenText(fb))
                nqCall == <<Call("generate_next_question", job, <<>>, <<>>,
                                 AskedQuestions(history1), nq)>>
            IN  /\ Len(history) < MaxHistory
                /\ answer_submitted' = TRUE
                /\ interview_language' =
                      IF parse THEN Fallback(p[1], interview_language)
                      ELSE interview_language
                /\ language_level' =
                      IF parse THEN Fallback(p[2], language_level)
                      ELSE language_level
                /\ explain_language' =
                      IF parse THEN Fallback(p[3], explain_language)
                      ELSE explain_language
                /\ IF fb.raises
                   THEN /\ calls' = parseCall \o fbCall
                        /\ UNCHANGED <<history, question, rounds, answered>>
                   ELSE /\ history' = history1
                        /\ rounds' = rounds + 1
                        /\ calls' = parseCall \o fbCall \o nqCall
                        /\ IF nq.raises
                           THEN /\ answered' = TRUE
                                /\ UNCHANGED question
                           ELSE /\ question' = GenText(nq)
                                /\ answered' = FALSE
    /\ setup_complete_shown' = SetupCompleteShown(setup_step, FALSE)
    /\ UNCHANGED <<started, job, setup_step, setup_chat, company_website,
                   parse_in, parse_out>>

\* The replies that matter to an event: a generator that is not called has
\* no reply to choose.
FirstReplies(jd) == IF IsBlank(jd) THEN {Raises} ELSE QuestionReplies
FeedbackRepliesFor(ans) == IF IsBlank(ans) THEN {Raises} ELSE FeedbackReplies
NextReplies(ans, fb) ==
    IF IsBlank(ans) \/ fb.raises THEN {Raises} ELSE QuestionReplies

Next ==
    \/ Rerun
    \/ \E text \in SetupTexts : SetupSubmit(text)
    \/ \E jd \in JobTexts :
          \E reply \in FirstReplies(jd) : StartInterview(jd, reply)
    \/ \E ans \in AnswerTexts :
          \E fb \in FeedbackRepliesFor(ans) :
             \E nq \in NextReplies(ans, fb) : SubmitAnswer(ans, fb, nq)

Spec == Init /\ [][Next]_vars

---------------------------------------------------------------------------
(* The setup wizard on its own, over a wider set of submitted texts *)

WizardNext ==
    \/ Rerun
    \/ \E text \in WizardTexts : SetupSubmit(text)

WizardSpec == Init /\ [][WizardNext]_vars

---------------------------------------------------------------------------
(* parse_setup_answer applied to every line built from a few pieces *)

Pieces == { <<" ">>, <<",">>, <<"D", "e">>, <<"b", "1">>, <<"A", "2">>,
            <<"y", "E", "s">> }

RECURSIVE Flatten(_)
Flatten(ps) == IF ps = <<>> THEN <<>> ELSE Head(ps) \o Flatten(Tail(ps))

ParseInputs ==
    UNION { {Flatten(ps) : ps \in [1..n -> Pieces]} : n \in 0..MaxPieces }

\* parse_out before the parser has run
NoResult == <<>>

ParseInit ==
    /\ Init!1 /\ Init!2 /\ Init!3 /\ Init!4 /\ Init!5 /\ Init!6 /\ Init!7
    /\ Init!8 /\ Init!9 /\ Init!10 /\ Init!11 /\ Init!12 /\ Init!13 /\ Init!14
    /\ Init!17 /\ Init!18
    /\ parse_in \in ParseInputs
    /\ parse_out = NoResult

ParseCall ==
    /\ parse_out = NoResult
    /\ parse_out' = parse_setup_answer(parse_in)
    /\ UNCHANGED <<session, event, calls, rounds, answered, answer_submitted,
                   setup_complete_shown, parse_in>>

ParseSpec == ParseInit /\ [][ParseCall]_vars

---------------------------------------------------------------------------
(* Properties *)

\* text is empty or consists of whitespace only
AllWhitespace(text) == \A i \in 1..Len(text) : text[i] \in Whitespace

\* the three preference fields
prefs == <<interview_language, language_level, explain_language>>

\* C1: every setup-wizard submission increases setup_step by exactly 1, no
\* other event (rerun, Start Interview, Submit Answer) changes setup_step,
\* and setup_step never decreases and always stays within 0..4.
C1_SetupStepAdvance ==
    /\ [](setup_step \in 0..4)
    /\ [][ /\ setup_step' >= setup_step
           /\ IF event'.kind = "chat_input"
              THEN event'.text # <<>> /\ setup_step < 4 /\ setup_step' = setup_step + 1
              ELSE setup_step' = setup_step ]_vars

\* C1 witness: the fourth submission has just completed the setup.
C1_Witness == event.kind = "chat_input" /\ setup_step = 4

\* some generator call is in the log of the last run
GeneratorCalled(log) ==
    \E i \in 1..Len(log) :
        log[i].fn \in {"generate_first_question", "generate_feedback",
                       "generate_next_question"}

\* C2: Start Interview is handled only in a run where setup_step = 4; hence
\* started implies setup_step = 4, and no run that begins with setup_step < 4
\* makes a generator call.
C2_SetupGatesInterview ==
    /\ [](started => setup_step = 4)
    /\ [][ /\ (event'.kind = "start_interview" => setup_step = 4)
           /\ (setup_step < 4 => ~GeneratorCalled(calls')) ]_vars

\* C2 witness: the interview was started (a generator call was made) at step 4.
C2_Witness ==
    /\ event.kind = "start_interview"
    /\ started /\ setup_step = 4 /\ GeneratorCalled(calls)

\* C3: Start Interview with a blank job description and Submit Answer with a
\* blank answer leave started, job, history, question and the preference
\* fields unchanged, call neither the parser nor a generator, and leave the
\* same action available.
C3_BlankInputNoEffect ==
    [][ (/\ event'.kind \in {"start_interview", "submit_answer"}
         /\ AllWhitespace(event'.text))
        => /\ UNCHANGED <<started, job, history, question, prefs>>
           /\ calls' = <<>>
           /\ (event'.kind = "start_interview" => JobInputShown')
           /\ (event'.kind = "submit_answer" => AnswerFormShown') ]_vars

\* C3 witness: a blank answer was submitted after one completed round.
C3_Witness ==
    /\ event.kind = "submit_answer" /\ AllWhitespace(event.text)
    /\ Len(history) = 1 /\ calls = <<>>

\* C4: len(history) equals the number of completed rounds and
\* session.question is the question of the next unanswered round: it has not
\* already been recorded in history as the question of an answered round.
C4_QuestionIsNextUnanswered == Len(history) = rounds /\ ~answered

\* the answer that names a language, a level and an explanation language
AnswerWithPrefs == <<"D", "e", " ", "c", "2", " ", "y", "e", "s", " ", "B", "n">>

\* s is an initial segment of t
IsPrefix(s, t) == Len(s) <= Len(t) /\ \A i \in 1..Len(s) : s[i] = t[i]

\* C5: whenever Submit Answer calls generate_next_question, asked_questions
\* is the list of the q fields of history in insertion order, the entry
\* appended by that event (whose q is the question just answered) included;
\* history entries are never removed, reordered or modified.
C5_AskedQuestionsFollowHistory ==
    [][ /\ IsPrefix(history, history')
        /\ \A i \in 1..Len(calls') :
              calls'[i].fn = "generate_next_question" =>
                 LET asked == calls'[i].asked_questions
                 IN  /\ Len(history') = Len(history) + 1
                     /\ history'[Len(history')].q = question
                     /\ Len(asked) = Len(history')
                     /\ \A k \in 1..Len(asked) : asked[k] = history'[k].q ]_vars

\* C5 witness: a second round reached generate_next_question with two
\* different questions asked so far.
C5_Witness ==
    /\ Len(history) = 2 /\ history[1].q # history[2].q
    /\ calls # <<>>
    /\ calls[Len(calls)].fn = "generate_next_question"
    /\ calls[Len(calls)].asked_questions = <<history[1].q, history[2].q>>

\* C6: a Submit Answer made while interview_language is non-empty leaves
\* interview_language, language_level and explain_language unchanged,
\* whatever the answer contains.
C6_FallbackSkippedWhenLanguageSet ==
    [][ (event'.kind = "submit_answer" /\ interview_language # <<>>)
        => UNCHANGED prefs ]_vars

\* C6 witness: an answer full of preference tokens was recorded while the
\* language stored by the wizard stayed in place.
C6_Witness ==
    /\ event.kind = "submit_answer" /\ event.text = AnswerWithPrefs
    /\ history # <<>> /\ history[Len(history)].a = AnswerWithPrefs
    /\ interview_language = <<"b", "1">>

\* C7: for each preference field separately, once the field is non-empty no
\* Submit Answer changes it.
C7_FieldKeptOnceSet ==
    [][ event'.kind = "submit_answer"
        => /\ (interview_language # <<>> => interview_language' = interview_language)
           /\ (language_level # <<>> => language_level' = language_level)
           /\ (explain_language # <<>> => explain_language' = explain_language) ]_vars

\* characters that separate the tokens of a line: whitespace and the comma
Separators == Whitespace \cup {","}

\* the tokens of text, as <<first, last>> positions: the maximal runs of
\* characters that are not separators
TokenSpans(text) ==
    { sp \in (1..Len(text)) \X (1..Len(text)) :
        /\ sp[1] <= sp[2]
        /\ \A k \in sp[1]..sp[2] : text[k] \notin Separators
        /\ (sp[1] = 1 \/ text[sp[1] - 1] \in Separators)
        /\ (sp[2] = Len(text) \/ text[sp[2] + 1] \in Separators) }

Token(text, sp) == SubSeq(text, sp[1], sp[2])

\* c and d are the same character up to letter case
SameLetter(c, d) ==
    c = d \/ \E i \in 1..Len(UpperCase) : {c, d} = {UpperCase[i], LowerCase[i]}

\* a and b are equal up to letter case
CaseEq(a, b) == Len(a) = Len(b) /\ \A i \in 1..Len(a) : SameLetter(a[i], b[i])

\* the six CEFR codes in their fixed order
CefrCodes == << <<"A", "1">>, <<"A", "2">>, <<"B", "1">>,
                <<"B", "2">>, <<"C", "1">>, <<"C", "2">> >>

\* C8: parse_setup_answer(text) returns (il, lv, el): il is the first token
\* with its casing, or empty; lv is the first code of A1,A2,B1,B2,C1,C2 that
\* equals some token up to case, in upper case, or empty; el is the last
\* token when some token equals "yes" up to case and there are at least two
\* tokens, else empty. The call always returns, and "" yields ("", "", "").
C8_ParseSetupAnswer ==
    parse_out # NoResult =>
          LET spans == TokenSpans(parse_in)
              first == CHOOSE sp \in spans : \A o \in spans : sp[1] <= o[1]
              last == CHOOSE sp \in spans : \A o \in spans : sp[1] >= o[1]
              matching == { k \in 1..Len(CefrCodes) :
                              \E sp \in spans :
                                 CaseEq(Token(parse_in, sp), CefrCodes[k]) }
              lowest == CHOOSE k \in matching : \A o \in matching : k <= o
              yes == \E sp \in spans :
                        CaseEq(Token(parse_in, sp), <<"y", "e", "s">>)
          IN  /\ Len(parse_out) = 3
              /\ parse_out[1] =
                    IF spans = {} THEN <<>> ELSE Token(parse_in, first)
              /\ parse_out[2] =
                    IF matching = {} THEN <<>> ELSE CefrCodes[lowest]
              /\ parse_out[3] =
                    IF yes /\ Cardinality(spans) >= 2
                    THEN Token(parse_in, last)
                    ELSE <<>>
              /\ (parse_in = <<>> => parse_out = << <<>>, <<>>, <<>> >>)

\* C8 witness: "yEs,b1 A2" was parsed: the comma separates, "yEs" counts as
\* yes, A2 precedes B1 in the fixed order although b1 comes first in the line.
C8_Witness ==
    /\ parse_in = <<"y", "E", "s", ",", "b", "1", " ", "A", "2">>
    /\ parse_out = << <<"y", "E", "s">>, <<"A", "2">>, <<"A", "2">> >>

\* C9 as stated: a step-2 submission equal to "no" up to case stores "" in
\* explain_language, any other submitted text is stored character for
\* character.
C9_ExplainLanguageVerbatim ==
    [][ (event'.kind = "chat_input" /\ setup_step = 2)
        => explain_language' =
              IF CaseEq(event'.text, <<"n", "o">>) THEN <<>> ELSE event'.text
      ]_vars

\* t is text without its leading and trailing whitespace
IsTrimOf(t, text) ==
    \E a \in 0..Len(text), b \in 0..Len(text) :
        /\ a + b <= Len(text)
        /\ t = SubSeq(text, a + 1, Len(text) - b)
        /\ \A i \in 1..a : text[i] \in Whitespace
        /\ \A i \in (Len(text) - b + 1)..Len(text) : text[i] \in Whitespace
        /\ (t # <<>> => t[1] \notin Whitespace /\ t[Len(t)] \notin Whitespace)

\* C9, amended: a step-2 submission whose text without leading and trailing
\* whitespace equals "no" up to case stores "" in explain_language; any other
\* submitted text is stored without its leading and trailing whitespace.
C9_ExplainLanguageTrimmed ==
    [][ (event'.kind = "chat_input" /\ setup_step = 2)
        => \E t \in {SubSeq(event'.text, i, j) :
                        i \in 1..(Len(event'.text) + 1), j \in 0..Len(event'.text)} :
              /\ IsTrimOf(t, event'.text)
              /\ explain_language' = IF CaseEq(t, <<"n", "o">>) THEN <<>> ELSE t
      ]_vars

\* C9 witness: " b1 " was submitted at step 2 and stored as "b1".
C9_Witness ==
    /\ event.kind = "chat_input" /\ setup_step = 3
    /\ event.text = <<" ", "b", "1", " ">>
    /\ explain_language = <<"b", "1">>

\* C10: once a Start Interview has stored a job description, no later event
\* changes session.job.
C10_JobImmutable == [][ job # <<>> => job' = job ]_vars

\* the log holds a call of fn that returned (did not raise)
Returned(log, fn) ==
    \E i \in 1..Len(log) : log[i].fn = fn /\ ~log[i].reply.raises

\* C11: started becomes true only in a run whose generate_first_question
\* call returned, with session.question holding the text it returned; a
\* failing first-question call never leaves started = TRUE behind.
C11_StartedOnlyAfterFirstQuestion ==
    [][ (~started /\ started')
        => /\ Returned(calls', "generate_first_question")
           /\ \E i \in 1..Len(calls') :
                 /\ calls'[i].fn = "generate_first_question"
                 /\ IsTrimOf(question', calls'[i].reply.content) ]_vars

\* C12: setup_chat is append-only; its entries alternate assistant, user,
\* assistant, ...; the assistant entry of step k is the fixed prompt of step k
\* and the user entry after it is the text submitted at step k; its length
\* is 2*setup_step or 2*setup_step + 1, and 8 once the setup is complete.
C12_SetupChatAlternates ==
    /\ [](/\ \A i \in 1..Len(setup_chat) :
                IF i % 2 = 1
                THEN setup_chat[i] =
                        [role |-> "assistant", content |-> SetupPrompt((i - 1) \div 2)]
                ELSE setup_chat[i].role = "user"
          /\ Len(setup_chat) \in {2 * setup_step, 2 * setup_step + 1}
          /\ (setup_step = 4 => Len(setup_chat) = 8))
    /\ [][ /\ IsPrefix(setup_chat, setup_chat')
           /\ (event'.kind = "chat_input" =>
                  /\ Len(setup_chat') >= 2 * setup_step + 2
                  /\ setup_chat'[2 * setup_step + 2] =
                        [role |-> "user", content |-> event'.text]) ]_vars

\* C12 witness: the setup is complete and the chat holds four prompts and
\* four submissions.
C12_Witness ==
    /\ setup_step = 4 /\ Len(setup_chat) = 8
    /\ setup_chat[8] = [role |-> "user", content |-> event.text]
    /\ event.kind = "chat_input"

\* C13: a run without input changes nothing in the session but setup_chat,
\* and appends the current step's prompt only if setup_step < 4 and the last
\* entry is not an assistant entry; after such a run the last entry is that
\* prompt, so further runs without input change nothing, and no two prompts
\* ever follow each other.
C13_RerunIdempotent ==
    /\ [](\A i \in 1..(Len(setup_chat) - 1) :
             ~(setup_chat[i].role = "assistant"
               /\ setup_chat[i + 1].role = "assistant"))
    /\ []((event.kind = "rerun" /\ setup_step < 4)
             => /\ setup_chat # <<>>
                /\ setup_chat[Len(setup_chat)] =
                      [role |-> "assistant", content |-> SetupPrompt(setup_step)])
    /\ [][ event'.kind = "rerun"
           => /\ UNCHANGED <<started, job, question, history, prefs,
                             setup_step, company_website>>
              /\ setup_chat' =
                    IF /\ setup_step < 4
                       /\ (setup_chat = <<>>
                           \/ setup_chat[Len(setup_chat)].role = "user")
                    THEN Append(setup_chat,
                                [role |-> "assistant",
                                 content |-> SetupPrompt(setup_step)])
                    ELSE setup_chat ]_vars

\* C13 witness: after the first submission (which left the prompt of step 1
\* as the last entry) a run without input left the chat at three entries.
C13_Witness ==
    /\ event.kind = "rerun" /\ setup_step = 1 /\ Len(setup_chat) = 3

\* the log holds a call of the preference parser
ParserCalled(log) ==
    \E i \in 1..Len(log) : log[i].fn = "parse_setup_answer"

\* C14: the preference parser is invoked only by a Submit Answer event, only
\* while interview_language is empty, and only if no answer was submitted
\* before (hence at most once per session).
C14_ParserOnlyOnFirstAnswer ==
    [][ ParserCalled(calls')
        => /\ event'.kind = "submit_answer"
           /\ interview_language = <<>>
           /\ ~answer_submitted
           /\ history = <<>> ]_vars

\* the log holds a generator call that raised
GeneratorFailed(log) ==
    \E i \in 1..Len(log) :
        log[i].fn # "parse_setup_answer" /\ log[i].reply.raises

\* C15: an event in which a generator call fails leaves started, job,
\* question, history and the preference fields as they were before it.
C15_FailedCallLeavesSession ==
    [][ GeneratorFailed(calls')
        => UNCHANGED <<started, job, question, history, prefs>> ]_vars

\* the log holds a generator call that returned a reply without usable text
BlankReply(log) ==
    \E i \in 1..Len(log) :
        /\ log[i].fn # "parse_setup_answer"
        /\ ~log[i].reply.raises
        /\ AllWhitespace(log[i].reply.content)

\* C16: an event in which a generator returned an empty or whitespace-only
\* reply stores nothing: question and history stay as they were, and no
\* history entry ever has an empty feedback.
C16_BlankReplyNotStored ==
    /\ [](\A i \in 1..Len(history) : history[i].feedback # <<>>)
    /\ [][ BlankReply(calls') => UNCHANGED <<question, history>> ]_vars

\* C17: once setup_step is 4, no event changes setup_step or setup_chat
\* (so no setup prompt is appended again), and setup_step never exceeds 4.
C17_SetupDoneIsTerminal ==
    /\ [](setup_step <= SetupDone)
    /\ [][ setup_step = SetupDone
           => UNCHANGED <<setup_step, setup_chat>> ]_vars

\* C17 witness: an answer was submitted and recorded after the setup was
\* complete, and the setup chat still holds its eight entries.
C17_Witness ==
    /\ setup_step = SetupDone /\ Len(setup_chat) = 8
    /\ event.kind = "submit_answer" /\ history # <<>>

\* C18: the "Setup complete" success message is shown only by runs in which
\* setup_step is 4.
C18_SetupCompleteOnlyWhenDone ==
    setup_complete_shown => setup_step = SetupDone

\* C19: a setup submission at step s leaves started, job, question and
\* history unchanged and changes no preference field other than the one of
\* step s; Start Interview and Submit Answer never change setup_step or
\* setup_chat.
C19_WizardInterviewDisjoint ==
    [][ /\ event'.kind = "chat_input"
           => /\ UNCHANGED <<started, job, question, history>>
              /\ (setup_step # 0 => UNCHANGED interview_language)
              /\ (setup_step # 1 => UNCHANGED language_level)
              /\ (setup_step # 2 => UNCHANGED explain_language)
              /\ (setup_step # 3 => UNCHANGED company_website)
        /\ event'.kind \in {"start_interview", "submit_answer"}
           => UNCHANGED <<setup_step, setup_chat>> ]_vars

\* C19 witness: the submission of a blank text at step 1 stored an empty
\* level and left the language stored at step 0 as it was.
C19_Witness ==
    /\ event = [kind |-> "chat_input", text |-> <<" ">>]
    /\ setup_step = 2
    /\ interview_language = <<"b", "1">>
    /\ language_level = <<>>

=============================================================================
